---- MODULE Spec2Model ----
(***************************************************************************)
(* A model of the costaeres resource Manager: the SQL index (resources,    *)
(* tags, variants, fts), the file-backed blob store, the metadata LRU      *)
(* cache and the operations of src/src/manager.rs that keep them in step.  *)
(***************************************************************************)
EXTENDS Integers, Sequences, FiniteSets, TLC

(***************************************************************************)
(* Bounds of the model.                                                    *)
(***************************************************************************)
MaxId == 2            \* resource ids are ROOT and 1..MaxId
MaxNames == 2         \* how many entries of Profiles callers use
MaxOps == 3           \* how many Manager calls one behaviour of Spec makes
MaxTreeOps == 4       \* how many Manager calls one behaviour of SpecTree makes
MaxWriteOps == 4      \* how many Manager calls one behaviour of SpecWrites makes
MaxPathOps == 5       \* how many Manager calls one behaviour of SpecPath makes
MaxPairOps == 3       \* how many Manager calls one behaviour of SpecPair makes
MaxSearchOps == 3     \* how many Manager calls one behaviour of SpecSearch makes
MaxAdds == 11         \* how many visits one behaviour of SpecScorer adds to the scorer
MaxVisitCount == 1    \* visits are offered while visit_count is below this
CacheCapacity == 2    \* Config::metadata_cache_capacity

(***************************************************************************)
(* Values: ids, kinds, variants, scorers, metadata.                        *)
(***************************************************************************)
ROOT_ID == 0
Ids == 0..MaxId

is_root(id) == id = ROOT_ID

Kinds == {"Container", "Leaf"}

MAX_VISIT_ENTRIES == 10

Variant_new(name) == [name |-> name, mime_type |-> "application/octet-stream", size |-> 42]

VariantNames == {"default", "thumb"}

DefaultScorer == [visit_count |-> 0, entries |-> <<>>]

VisitEntries == [timestamp : {0}, priority : {"Normal"}]

\* a log that makes room by dropping the newest visit it holds
Scorer_add_drop_newest(s, e) ==
    LET kept == IF Len(s.entries) = MAX_VISIT_ENTRIES
                THEN SubSeq(s.entries, 1, Len(s.entries) - 1) ELSE s.entries
    IN [visit_count |-> s.visit_count + 1, entries |-> Append(kept, e)]

\* Scorer::add
Scorer_add(s, e) ==
    LET kept == IF Len(s.entries) = MAX_VISIT_ENTRIES THEN Tail(s.entries) ELSE s.entries
    IN [visit_count |-> s.visit_count + 1, entries |-> Append(kept, e)]

\* VisitPriority::bonus
bonus(priority) ==
    CASE priority = "Normal" -> 100
      [] priority = "High" -> 150
      [] priority = "VeryHigh" -> 200

\* Utc::now(): the instant at which scores are computed
Utc_now == 0

\* weight_for: instants count days, `now` is Utc::now()
weight_for(when, now) ==
    LET days == now - when
    IN IF days <= 4 THEN 100
       ELSE IF days <= 14 THEN 70
       ELSE IF days <= 31 THEN 50
       ELSE IF days <= 90 THEN 30
       ELSE 10

\* the sum of the points of the sampled visits; every point is a whole number
RECURSIVE points(_, _)
points(entries, now) ==
    IF entries = <<>> THEN 0
    ELSE (bonus(Head(entries).priority) * weight_for(Head(entries).timestamp, now)) \div 100
         + points(Tail(entries), now)

\* a score that is the mean of the points, without the visit count
frecency_mean(s, now) ==
    IF s.entries = <<>> THEN 0
    ELSE points(s.entries, now) \div Len(s.entries)

\* Scorer::frecency
frecency(s, now) ==
    IF s.entries = <<>> THEN 0
    ELSE (s.visit_count * points(s.entries, now)) \div Len(s.entries)

\* Scorer::as_binary / Scorer::from_binary: the (visit_count, entry_count, entries) form
as_binary(s) == <<s.visit_count, Len(s.entries), s.entries>>

from_binary(b) == [visit_count |-> b[1], entries |-> SubSeq(b[3], 1, b[2])]

\* Texts are sequences of one-character strings.
NameTable == << <<"a">>, <<"A", "b">>, <<"b", " ", "a">>, <<"c">> >>

Names == {NameTable[i] : i \in 1..MaxNames}

\* what callers put in a metadata besides id, parent and kind: a name with tags,
\* variants and the two dates (instants are integers, 0 the instant of construction)
Profiles ==
    << [name |-> NameTable[1], tags |-> <<>>, variants |-> <<>>,
        created |-> 1, modified |-> 1],
       [name |-> NameTable[2], tags |-> <<"t">>, variants |-> <<Variant_new("default")>>,
        created |-> 1, modified |-> 2],
       [name |-> NameTable[3], tags |-> <<"t", "t">>,
        variants |-> <<Variant_new("default"), Variant_new("thumb")>>,
        created |-> 2, modified |-> 2],
       [name |-> NameTable[4], tags |-> <<>>, variants |-> <<Variant_new("thumb")>>,
        created |-> 2, modified |-> 3] >>

\* ResourceMetadata::new: a fresh scorer, created and modified at the instant of the call
ResourceMetadata_new(id, parent, kind, name, tags, variants) ==
    [id |-> id, parent |-> parent, kind |-> kind, name |-> name,
     tags |-> tags, variants |-> variants, created |-> 0, modified |-> 0,
     scorer |-> DefaultScorer]

\* ResourceMetadata::set_created and ResourceMetadata::set_modified
set_dates(m, created, modified) == [m EXCEPT !.created = created, !.modified = modified]

has_variant(m, name) == \E i \in 1..Len(m.variants) : m.variants[i].name = name

\* ResourceMetadata::delete_variant
Metadata_delete_variant(m, name) ==
    LET Keep(v) == v.name # name
    IN [m EXCEPT !.variants = SelectSeq(m.variants, Keep)]

\* ResourceMetadata::update_scorer
update_scorer(m, e) == [m EXCEPT !.scorer = Scorer_add(m.scorer, e)]

db_scorer(m) == as_binary(m.scorer)

(***************************************************************************)
(* Full text search helpers (src/src/fts.rs).                              *)
(***************************************************************************)
MAX_NGRAM == 5

\* bytes of the UTF-8 encoding of a character
ByteLen(c) == IF c \in {"é", "É", "ß", "µ"} THEN 2 ELSE 1

Fold(c) ==
    CASE c = "É" -> <<"E">>
      [] c = "é" -> <<"e">>
      [] c = "ß" -> <<"s", "s">>
      [] OTHER -> <<c>>

Lower(c) ==
    CASE c = "A" -> "a"
      [] c = "B" -> "b"
      [] c = "E" -> "e"
      [] c = "H" -> "h"
      [] c = "W" -> "w"
      [] OTHER -> c

RECURSIVE remove_diacritics(_)
remove_diacritics(t) ==
    IF t = <<>> THEN <<>> ELSE Fold(Head(t)) \o remove_diacritics(Tail(t))

to_lowercase(t) == [i \in 1..Len(t) |-> Lower(t[i])]

RECURSIVE split_whitespace(_, _)
split_whitespace(t, cur) ==
    IF t = <<>> THEN (IF cur = <<>> THEN <<>> ELSE <<cur>>)
    ELSE IF Head(t) = " "
         THEN (IF cur = <<>> THEN <<>> ELSE <<cur>>) \o split_whitespace(Tail(t), <<>>)
         ELSE split_whitespace(Tail(t), Append(cur, Head(t)))

preprocess_text(text) == split_whitespace(to_lowercase(remove_diacritics(text)), <<>>)

RECURSIVE ByteSize(_)
ByteSize(w) == IF w = <<>> THEN 0 ELSE ByteLen(Head(w)) + ByteSize(Tail(w))

\* byte offset at which character i of w starts (i = Len(w) + 1: the end of w)
Offset(w, i) == ByteSize(SubSeq(w, 1, i - 1))

\* str::get(pos..pos + len): the characters between two character boundaries, or <<>> (None)
str_get(w, pos, len) ==
    LET from == {i \in 1..Len(w) + 1 : Offset(w, i) = pos}
        to == {j \in 1..Len(w) + 1 : Offset(w, j) = pos + len}
    IN IF from = {} \/ to = {} THEN <<>>
       ELSE SubSeq(w, CHOOSE i \in from : TRUE, (CHOOSE j \in to : TRUE) - 1)

\* the substrings of byte length len of w, in the order of the inner loop, which stops
\* at the first cut that is not on a character boundary
RECURSIVE substrings_from(_, _, _)
substrings_from(w, len, pos) ==
    IF pos + len > ByteSize(w) THEN <<>>
    ELSE IF str_get(w, pos, len) = <<>> THEN <<>>
    ELSE <<str_get(w, pos, len)>> \o substrings_from(w, len, pos + 1)

RECURSIVE word_ngrams(_, _, _)
word_ngrams(w, len, max_substring_len) ==
    IF len > max_substring_len \/ len > ByteSize(w) THEN <<>>
    ELSE substrings_from(w, len, 0) \o word_ngrams(w, len + 1, max_substring_len)

RECURSIVE all_ngrams(_, _)
all_ngrams(words, max_substring_len) ==
    IF words = <<>> THEN <<>>
    ELSE word_ngrams(Head(words), 1, max_substring_len)
         \o all_ngrams(Tail(words), max_substring_len)

\* keeps the first occurrence of every element (the `seen` set of ngrams)
RECURSIVE Dedup(_, _)
Dedup(s, seen) ==
    IF s = <<>> THEN <<>>
    ELSE IF Head(s) \in seen THEN Dedup(Tail(s), seen)
    ELSE <<Head(s)>> \o Dedup(Tail(s), seen \cup {Head(s)})

ngrams(text, max_substring_len) ==
    Dedup(all_ngrams(preprocess_text(text), max_substring_len), {})

Range(s) == {s[i] : i \in 1..Len(s)}

(***************************************************************************)
(* The index: tables resources, tags, variants and fts, keyed by id.      *)
(* Rows of tags, variants and fts go with their resources row (ON DELETE  *)
(* CASCADE), so the four maps always have the same domain.                *)
(***************************************************************************)
EmptyDb == [resources |-> [i \in {} |-> 0], tags |-> [i \in {} |-> 0],
            variants |-> [i \in {} |-> 0], fts |-> [i \in {} |-> 0]]

Drop(f, id) == [i \in DOMAIN f \ {id} |-> f[i]]

Put(f, id, v) == [i \in DOMAIN f \cup {id} |-> IF i = id THEN v ELSE f[i]]

\* SELECT count(*) FROM resources WHERE id = ?
has_object(db, id) == id \in DOMAIN db.resources

\* SELECT count(*) FROM resources
resource_count(db) == Cardinality(DOMAIN db.resources)

\* SELECT count(*) FROM resources WHERE id = ? and kind = Container
is_container(db, id) == has_object(db, id) /\ db.resources[id].kind = "Container"

\* SELECT id FROM resources WHERE parent = ? AND parent != id
children_of(db, parent) ==
    {i \in DOMAIN db.resources : db.resources[i].parent = parent /\ parent # i}

\* DELETE FROM resources WHERE id = ?  (tags, variants and fts rows cascade)
delete_row(db, id) ==
    [resources |-> Drop(db.resources, id), tags |-> Drop(db.tags, id),
     variants |-> Drop(db.variants, id), fts |-> Drop(db.fts, id)]

\* a resources table whose only constraint is the primary key
resources_insert_ok_pk_only(db, m) ==
    m.id \notin DOMAIN db.resources

\* the constraints of the schema on INSERT INTO resources: id is the primary key,
\* (parent, name) is unique
resources_insert_ok(db, m) ==
    /\ m.id \notin DOMAIN db.resources
    /\ \A i \in DOMAIN db.resources :
          ~(db.resources[i].parent = m.parent /\ db.resources[i].name = m.name)

\* the primary key (id, name) of the variants table
variants_insert_ok(m) ==
    \A i, j \in 1..Len(m.variants) : m.variants[i].name = m.variants[j].name => i = j

\* Fts::add_text: the n-grams of the text that are not known yet for this id
add_text(db, id, text) ==
    [db EXCEPT !.fts[id] = @ \cup Range(ngrams(text, MAX_NGRAM))]

\* a read of the index that leaves the dates at the instant of the read
row_metadata_undated(db, id) ==
    [ResourceMetadata_new(id, db.resources[id].parent, db.resources[id].kind,
                          db.resources[id].name, db.tags[id], db.variants[id])
     EXCEPT !.scorer = from_binary(db.resources[id].scorer)]

\* the row SELECT ... FROM resources WHERE id = ? returns, with its tags and variants
row_metadata(db, id) ==
    [set_dates(ResourceMetadata_new(id, db.resources[id].parent, db.resources[id].kind,
                                    db.resources[id].name, db.tags[id], db.variants[id]),
               db.resources[id].created, db.resources[id].modified)
     EXCEPT !.scorer = from_binary(db.resources[id].scorer)]

(***************************************************************************)
(* The metadata cache: an LRU list, least recently used first.            *)
(***************************************************************************)
cache_ids(cache) == {cache[i].id : i \in 1..Len(cache)}

cache_without(cache, id) ==
    LET Other(m) == m.id # id IN SelectSeq(cache, Other)

\* LruCache::get, the value and the promotion of the entry
cache_get(cache, id) == CHOOSE m \in Range(cache) : m.id = id

cache_touch(cache, id) == Append(cache_without(cache, id), cache_get(cache, id))

\* Manager::evict_from_cache (LruCache::pop)
evict_from_cache(cache, id) == cache_without(cache, id)

\* Manager::update_cache (LruCache::put): a new key pushes the least recent one out
update_cache(cache, m) ==
    LET rest == cache_without(cache, m.id)
    IN IF Len(rest) >= CacheCapacity
       THEN Append(SubSeq(rest, Len(rest) - CacheCapacity + 2, Len(rest)), m)
       ELSE Append(rest, m)

(***************************************************************************)
(* The blob store (src/src/file_store.rs): one metadata file per id and   *)
(* one file per (id, variant name).                                       *)
(***************************************************************************)
EmptyStore == [meta |-> [i \in {} |-> 0], variants |-> [k \in {} |-> 0]]

\* payloads: opaque bytes, or a serialized list of ids
Bytes == [listing |-> FALSE, ids |-> <<>>]

\* ids in ascending order
RECURSIVE SortedSeq(_)
SortedSeq(S) ==
    IF S = {} THEN <<>>
    ELSE LET lo == CHOOSE x \in S : \A y \in S : x <= y
         IN <<lo>> \o SortedSeq(S \ {lo})

\* bincode serialization of a Vec<ResourceId>
serialize_ids(S) == [listing |-> TRUE, ids |-> SortedSeq(S)]

StoreOk(st) == [ok |-> TRUE, err |-> "Ok", store |-> st]

StoreErr(e, st) == [ok |-> FALSE, err |-> e, store |-> st]

\* a VariantContent: the variant's name and the texts the registered indexers
\* extract from its payload (none when no indexer matches)
NoContent == [some |-> FALSE, name |-> "", text |-> <<>>]

SomeContent(name) == [some |-> TRUE, name |-> name, text |-> <<>>]

\* a payload from which a registered indexer extracts these texts
IndexedContent(name, texts) == [some |-> TRUE, name |-> name, text |-> texts]

\* a driver that persists the metadata blob and never a variant blob
create_or_update_metadata_only(st, m, content, create) ==
    IF create /\ m.id \in DOMAIN st.meta
    THEN StoreErr("ResourceAlreadyExists", st)
    ELSE StoreOk([st EXCEPT !.meta = Put(st.meta, m.id, m)])

\* FileStore::create_or_update
create_or_update(st, m, content, create) ==
    IF create /\ m.id \in DOMAIN st.meta
    THEN StoreErr("ResourceAlreadyExists", st)
    ELSE LET st1 == [st EXCEPT !.meta = Put(st.meta, m.id, m)]
         IN IF m.kind # "Leaf" \/ ~content.some THEN StoreOk(st1)
            ELSE IF ~has_variant(m, content.name) THEN StoreErr("InvalidVariant", st1)
            ELSE StoreOk([st1 EXCEPT !.variants = Put(st1.variants, <<m.id, content.name>>, Bytes)])

\* FileStore::create and FileStore::update; io: the call fails in the file system
store_create(st, m, content, io) ==
    IF io THEN StoreErr("Io", st) ELSE create_or_update(st, m, content, TRUE)

store_update(st, m, content, io) ==
    IF io THEN StoreErr("Io", st) ELSE create_or_update(st, m, content, FALSE)

\* FileStore::update_default_variant_from_slice
update_default_variant_from_slice(st, id, payload, io) ==
    IF io THEN StoreErr("Io", st)
    ELSE StoreOk([st EXCEPT !.variants = Put(st.variants, <<id, "default">>, payload)])

\* FileStore::delete: the metadata file, then the file of every variant it names
store_delete(st, id, io) ==
    IF io THEN StoreErr("Io", st)
    ELSE IF id \notin DOMAIN st.meta THEN StoreErr("NoSuchResource", st)
    ELSE LET named == {<<id, st.meta[id].variants[i].name>> : i \in 1..Len(st.meta[id].variants)}
         IN StoreOk([meta |-> Drop(st.meta, id),
                     variants |-> [k \in DOMAIN st.variants \ named |-> st.variants[k]]])

\* FileStore::delete_variant
store_delete_variant(st, id, name, io) ==
    IF io THEN StoreErr("Io", st)
    ELSE StoreOk([st EXCEPT !.variants = Drop(st.variants, <<id, name>>)])

\* FileStore::get_metadata
store_get_metadata(st, id, io) ==
    IF io THEN StoreErr("Io", st)
    ELSE IF id \notin DOMAIN st.meta THEN StoreErr("NoSuchResource", st)
    ELSE StoreOk(st)

\* FileStore::get_variant
store_get_variant(st, id, name, io) ==
    IF io THEN StoreErr("Io", st)
    ELSE IF <<id, name>> \notin DOMAIN st.variants THEN StoreErr("NoSuchResource", st)
    ELSE StoreOk(st)

(***************************************************************************)
(* Manager (src/src/manager.rs).  An operation is an operator from the    *)
(* index, the store and the cache to its result and their new values.     *)
(* `fail` numbers the blob store call of the operation that fails in the  *)
(* file system (0: none does).  An index transaction that is dropped      *)
(* leaves the index as it was when the operation began.                   *)
(***************************************************************************)
NoMetadata == ResourceMetadata_new(ROOT_ID, ROOT_ID, "Leaf", <<>>, <<>>, <<>>)

Outcome(result, failed, db, st, cache, ret) ==
    [result |-> result, failed |-> failed, db |-> db, store |-> st, cache |-> cache,
     ret |-> ret]

\* a precheck that does not look the parent up in the index
check_container_leaf_self_only(db, id, parent) ==
    IF parent = id /\ ~is_root(parent) THEN "InvalidContainerId" ELSE "Ok"

\* Manager::check_container_leaf
check_container_leaf(db, id, parent) ==
    IF parent = id /\ ~is_root(parent) THEN "InvalidContainerId"
    ELSE IF ~is_root(id) /\ ~is_container(db, parent) THEN "InvalidContainerId"
    ELSE "Ok"

\* Manager::create_metadata, on the transaction's view db of the index
create_metadata(db, cache, m) ==
    IF ~resources_insert_ok(db, m) \/ ~variants_insert_ok(m)
    THEN [ok |-> FALSE, db |-> db, cache |-> cache]
    ELSE LET rows == [resources |-> Put(db.resources, m.id,
                                        [parent |-> m.parent, kind |-> m.kind,
                                         name |-> m.name, created |-> m.created,
                                         modified |-> m.modified,
                                         scorer |-> db_scorer(m)]),
                      tags |-> Put(db.tags, m.id, m.tags),
                      variants |-> Put(db.variants, m.id, m.variants),
                      fts |-> Put(db.fts, m.id, {})]
         IN [ok |-> TRUE, db |-> add_text(rows, m.id, m.name),
             cache |-> update_cache(cache, m)]

\* a manager that leaves the parent's listing blob as it is
update_container_content_skipped(db, st, parent, io) ==
    IF io THEN StoreErr("Io", st) ELSE StoreOk(st)

\* Manager::serialize_children_of and Manager::update_container_content
update_container_content(db, st, parent, io) ==
    update_default_variant_from_slice(st, parent, serialize_ids(children_of(db, parent)), io)

\* Indexer::index: Fts::add_text for every text found in the payload
RECURSIVE index_texts(_, _, _)
index_texts(db, id, texts) ==
    IF texts = <<>> THEN db
    ELSE index_texts(add_text(db, id, Head(texts)), id, Tail(texts))

\* Manager::update_text_index, called when the operation has content
update_text_index(db, m, content) ==
    IF ~content.some \/ m.kind = "Container" THEN db
    ELSE index_texts(db, m.id, content.text)

\* Manager::create committing the transaction before the blob store is written
Manager_create_commit_first(db, st, cache, m, content, fail) ==
    LET tx2 == create_metadata(db, cache, m)
        listed == IF is_root(m.id) THEN StoreOk(st)
                  ELSE update_container_content(tx2.db, st, m.parent, fail = 1)
        created == store_create(listed.store, m, content, fail = 2)
    IN IF check_container_leaf(db, m.id, m.parent) # "Ok"
       THEN Outcome(check_container_leaf(db, m.id, m.parent), "", db, st, cache, <<>>)
       ELSE IF ~tx2.ok THEN Outcome("Sql", "", db, st, cache, <<>>)
       ELSE IF ~listed.ok
            THEN Outcome(listed.err, "update_default_variant_from_slice",
                         tx2.db, listed.store, tx2.cache, <<>>)
       ELSE IF ~created.ok
            THEN Outcome(created.err, "create", tx2.db, created.store, tx2.cache, <<>>)
       ELSE Outcome("Ok", "", tx2.db, created.store, tx2.cache, <<>>)

\* Manager::create
Manager_create(db, st, cache, m, content, fail) ==
    IF check_container_leaf(db, m.id, m.parent) # "Ok"
    THEN Outcome(check_container_leaf(db, m.id, m.parent), "", db, st, cache, <<>>)
    ELSE
    LET tx2 == create_metadata(db, cache, m)
        listed == IF is_root(m.id) THEN StoreOk(st)
                  ELSE update_container_content(tx2.db, st, m.parent, fail = 1)
        tx3 == update_text_index(tx2.db, m, content)
        created == store_create(listed.store, m, content, fail = 2)
    IN IF ~tx2.ok THEN Outcome("Sql", "", db, st, cache, <<>>)
       ELSE IF ~listed.ok
            THEN Outcome(listed.err, "update_default_variant_from_slice",
                         db, listed.store, tx2.cache, <<>>)
       ELSE IF ~created.ok
            THEN Outcome(created.err, "create", db, created.store, tx2.cache, <<>>)
       ELSE Outcome("Ok", "", tx3, created.store, tx2.cache, <<>>)

\* Manager::update
Manager_update(db, st, cache, m, content, fail) ==
    IF check_container_leaf(db, m.id, m.parent) # "Ok"
    THEN Outcome(check_container_leaf(db, m.id, m.parent), "", db, st, cache, <<>>)
    ELSE
    LET tx == delete_row(db, m.id)
        tx2 == create_metadata(tx, cache, m)
        listed == IF is_root(m.id) THEN StoreOk(st)
                  ELSE update_container_content(tx2.db, st, m.parent, fail = 1)
        tx3 == update_text_index(tx2.db, m, content)
        updated == store_update(listed.store, m, content, fail = 2)
    IN IF ~tx2.ok THEN Outcome("Sql", "", db, st, cache, <<>>)
       ELSE IF ~listed.ok
            THEN Outcome(listed.err, "update_default_variant_from_slice",
                         db, listed.store, tx2.cache, <<>>)
       ELSE IF ~updated.ok
            THEN Outcome(updated.err, "update", db, updated.store, tx2.cache, <<>>)
       ELSE Outcome("Ok", "", tx3, updated.store, tx2.cache, <<>>)

\* a root built with ResourceKind::Leaf
root_metadata_leaf ==
    ResourceMetadata_new(ROOT_ID, ROOT_ID, "Leaf", <<"/">>, <<>>,
                         <<[name |-> "default", mime_type |-> "inode/directory", size |-> 0]>>)

\* Manager::create_root
root_metadata ==
    ResourceMetadata_new(ROOT_ID, ROOT_ID, "Container", <<"/">>, <<>>,
                         <<[name |-> "default", mime_type |-> "inode/directory", size |-> 0]>>)

Manager_create_root(db, st, cache, fail) ==
    Manager_create(db, st, cache, root_metadata, NoContent, fail)

\* Manager::get_metadata: the cache, then the index, then the blob store
Manager_get_metadata(db, st, cache, id, io) ==
    IF id \in cache_ids(cache)
    THEN Outcome("Ok", "", db, st, cache_touch(cache, id), <<cache_get(cache, id)>>)
    ELSE IF has_object(db, id)
    THEN Outcome("Ok", "", db, st, update_cache(cache, row_metadata(db, id)),
                 <<row_metadata(db, id)>>)
    ELSE LET got == store_get_metadata(st, id, io)
             tx2 == create_metadata(db, cache, st.meta[id])
         IN IF ~got.ok THEN Outcome(got.err, "get_metadata", db, st, cache, <<>>)
            ELSE IF ~tx2.ok THEN Outcome("Sql", "", db, st, cache, <<>>)
            ELSE Outcome("Ok", "", tx2.db, st, update_cache(tx2.cache, st.meta[id]),
                         <<st.meta[id]>>)

\* Manager::clear
Manager_clear(db) == EmptyDb

\* a visit done as a full update, which also rewrites the metadata blob
Manager_visit_full_update(db, st, cache, m, e) ==
    LET visited == update_scorer(m, e)
        db2 == IF has_object(db, m.id)
               THEN [db EXCEPT !.resources[m.id].scorer = db_scorer(visited)]
               ELSE db
    IN Outcome("Ok", "", db2, [st EXCEPT !.meta = Put(st.meta, m.id, visited)],
               evict_from_cache(cache, m.id), <<visited>>)

\* Manager::visit
Manager_visit(db, st, cache, m, e) ==
    LET visited == update_scorer(m, e)
        db2 == IF has_object(db, m.id)
               THEN [db EXCEPT !.resources[m.id].scorer = db_scorer(visited)]
               ELSE db
    IN Outcome("Ok", "", db2, st, evict_from_cache(cache, m.id), <<visited>>)

\* the orders in which a HashSet may be iterated
Orders(S) == {o \in [1..Cardinality(S) -> S] : Range(o) = S}

\* a worklist that stops at the children of the deleted container
collect_children_one_level(db, containers, to_delete, rounds) ==
    [ends |-> TRUE, to_delete |-> UNION {children_of(db, c) : c \in containers}]

\* Manager::delete, the worklist loop: one round per level of containers.  A round
\* beyond the number of ids means the loop goes round a cycle and never ends.
RECURSIVE collect_children(_, _, _, _)
collect_children(db, containers, to_delete, rounds) ==
    LET children == UNION {children_of(db, c) : c \in containers}
        new_obj == {c \in children : is_container(db, c)}
    IN IF rounds > Cardinality(Ids) THEN [ends |-> FALSE, to_delete |-> to_delete]
       ELSE IF new_obj = {} THEN [ends |-> TRUE, to_delete |-> to_delete \cup children]
       ELSE collect_children(db, new_obj, to_delete \cup children, rounds + 1)

\* Manager::delete, the cascade loop over to_delete in the order `order`; call k of the
\* blob store is the delete of order[k]
RECURSIVE delete_children(_, _, _, _, _, _)
delete_children(tx, st, cache, order, k, fail) ==
    IF k > Len(order) THEN [ok |-> TRUE, err |-> "Ok", db |-> tx, store |-> st, cache |-> cache]
    ELSE LET deleted == store_delete(st, order[k], fail = k)
         IN IF ~deleted.ok
            THEN [ok |-> FALSE, err |-> deleted.err, db |-> tx, store |-> deleted.store,
                  cache |-> cache]
            ELSE delete_children(delete_row(tx, order[k]), deleted.store,
                                 evict_from_cache(cache, order[k]), order, k + 1, fail)

\* Manager::delete of a resource that is not a container
delete_leaf(db, st, cache, id, fail) ==
    LET tx == delete_row(db, id)
        deleted == store_delete(st, id, fail = 1)
        listed == update_container_content(tx, deleted.store, db.resources[id].parent, fail = 2)
    IN IF ~deleted.ok THEN Outcome(deleted.err, "delete", db, deleted.store, cache, <<>>)
       ELSE IF ~listed.ok
            THEN Outcome(listed.err, "update_default_variant_from_slice",
                         db, listed.store, cache, <<>>)
       ELSE Outcome("Ok", "", tx, listed.store, evict_from_cache(cache, id), <<>>)

\* Manager::delete of a container, its descendants deleted in the order `order`
delete_container(db, st, cache, id, order, fail) ==
    LET children == delete_children(delete_row(db, id), st, cache, order, 1, fail)
        deleted == store_delete(children.store, id, fail = Len(order) + 1)
        listed == update_container_content(children.db, deleted.store,
                                           db.resources[id].parent, fail = Len(order) + 2)
    IN IF ~children.ok
       THEN Outcome(children.err, "delete", db, children.store, children.cache, <<>>)
       ELSE IF ~deleted.ok
            THEN Outcome(deleted.err, "delete", db, deleted.store, children.cache, <<>>)
       ELSE IF ~listed.ok
            THEN Outcome(listed.err, "update_default_variant_from_slice",
                         db, listed.store, children.cache, <<>>)
       ELSE Outcome("Ok", "", children.db, listed.store,
                    evict_from_cache(children.cache, id), <<>>)

\* the descendants Manager::delete collects
to_delete_of(db, id) == collect_children(db, {id}, {}, 1)

\* Manager::delete
Manager_delete(db, st, cache, id, order, fail) ==
    IF ~has_object(db, id) THEN Outcome("NoSuchResource", "", db, st, cache, <<>>)
    ELSE IF ~is_container(db, id) THEN delete_leaf(db, st, cache, id, fail)
    ELSE IF ~to_delete_of(db, id).ends THEN Outcome("Diverges", "", db, st, cache, <<>>)
    ELSE delete_container(db, st, cache, id, order, fail)

\* Manager::delete_variant
Manager_delete_variant(db, st, cache, id, variant_name, fail) ==
    LET got == Manager_get_metadata(db, st, cache, id, FALSE)
        metadata == Metadata_delete_variant(got.ret[1], variant_name)
        Keep(v) == v.name # variant_name
        db2 == IF has_object(got.db, id)
               THEN [got.db EXCEPT !.variants[id] = SelectSeq(@, Keep)]
               ELSE got.db
        deleted == store_delete_variant(got.store, id, variant_name, fail = 1)
        updated == store_update(deleted.store, metadata, NoContent, fail = 2)
    IN IF got.result # "Ok" THEN got
       ELSE IF ~has_variant(got.ret[1], variant_name)
            THEN Outcome("InvalidVariant", "", got.db, got.store, got.cache, <<>>)
       ELSE IF ~deleted.ok
            THEN Outcome(deleted.err, "delete_variant", db2, deleted.store, got.cache, <<>>)
       ELSE IF ~updated.ok
            THEN Outcome(updated.err, "update", db2, updated.store, got.cache, <<>>)
       ELSE Outcome("Ok", "", db2, updated.store, got.cache, <<>>)

\* Manager::get_container, the loop over the ids of the listing
RECURSIVE get_children(_, _, _, _, _, _)
get_children(db, st, cache, ids, k, res) ==
    IF k > Len(ids) THEN Outcome("Ok", "", db, st, cache, res)
    ELSE LET got == Manager_get_metadata(db, st, cache, ids[k], FALSE)
         IN IF got.result # "Ok" THEN got
            ELSE get_children(got.db, got.store, got.cache, ids, k + 1, res \o got.ret)

\* Manager::get_container
Manager_get_container(db, st, cache, id, fail) ==
    LET got == Manager_get_metadata(db, st, cache, id, fail = 1)
        file == store_get_variant(got.store, id, "default", fail = 2)
    IN IF got.result # "Ok" THEN got
       ELSE IF got.ret[1].kind # "Container"
            THEN Outcome("NoSuchResource", "", got.db, got.store, got.cache, <<>>)
       ELSE IF ~file.ok THEN Outcome("Ok", "", got.db, got.store, got.cache, got.ret)
       ELSE IF ~got.store.variants[<<id, "default">>].listing
            THEN Outcome("Codec", "", got.db, got.store, got.cache, <<>>)
       ELSE get_children(got.db, got.store, got.cache,
                         got.store.variants[<<id, "default">>].ids, 1, got.ret)

\* Vec::reverse
Reverse(s) == [i \in 1..Len(s) |-> s[Len(s) + 1 - i]]

\* a walk up the parent links that keeps no visited set: on a cycle it never returns
RECURSIVE full_path_loop_unvisited(_, _, _, _, _, _, _)
full_path_loop_unvisited(db, st, cache, current, visited, res, steps) ==
    IF steps > MaxId + 1
    THEN [out |-> Outcome("Diverges", "", db, st, cache, <<>>), steps |-> steps + 1]
    ELSE LET got == Manager_get_metadata(db, st, cache, current, FALSE)
         IN IF got.result # "Ok"
            THEN [out |-> Outcome(got.result, got.failed, got.db, st, got.cache, <<>>),
                  steps |-> steps + 1]
            ELSE IF is_root(current)
            THEN [out |-> Outcome("Ok", "", got.db, st, got.cache, Reverse(res \o got.ret)),
                  steps |-> steps + 1]
            ELSE full_path_loop_unvisited(got.db, st, got.cache, got.ret[1].parent,
                                          visited, res \o got.ret, steps + 1)

\* the loop of Manager::get_full_path; steps counts the passes through the loop
RECURSIVE full_path_loop(_, _, _, _, _, _, _)
full_path_loop(db, st, cache, current, visited, res, steps) ==
    IF current \in visited
    THEN [out |-> Outcome("ResourceCycle", "", db, st, cache, <<>>), steps |-> steps + 1]
    ELSE LET got == Manager_get_metadata(db, st, cache, current, FALSE)
         IN IF got.result # "Ok"
            THEN [out |-> Outcome(got.result, got.failed, got.db, st, got.cache, <<>>),
                  steps |-> steps + 1]
            ELSE IF is_root(current)
            THEN [out |-> Outcome("Ok", "", got.db, st, got.cache, Reverse(res \o got.ret)),
                  steps |-> steps + 1]
            ELSE full_path_loop(got.db, st, got.cache, got.ret[1].parent,
                                visited \cup {current}, res \o got.ret, steps + 1)

\* a path that is returned as it was collected, target first
get_full_path_target_first(db, st, cache, id) ==
    [full_path_loop(db, st, cache, id, {}, <<>>, 0).out EXCEPT !.ret = Reverse(@)]

\* Manager::get_full_path
Manager_get_full_path(db, st, cache, id) ==
    full_path_loop(db, st, cache, id, {}, <<>>, 0).out

(***************************************************************************)
(* Queries (src/src/manager.rs, src/src/fts.rs).  A query returns the set *)
(* of the ids of its rows.                                                 *)
(***************************************************************************)
NoTag == [some |-> FALSE, tag |-> <<>>]

SomeTag(tag) == [some |-> TRUE, tag |-> tag]

QueryOk(ids) == [result |-> "Ok", ids |-> ids]

QueryErr(e) == [result |-> e, ids |-> {}]

\* str::trim().is_empty()
trim_is_empty(text) == \A i \in 1..Len(text) : text[i] = " "

\* how many rows of the tags table of id hold this tag
tag_rows(db, id, tag) == Cardinality({i \in 1..Len(db.tags[id]) : db.tags[id][i] = tag})

\* the word a search looks up: word[0..max_substring_len] when the word is longer, a
\* cut by bytes, which panics when it is not on a character boundary (<<>> here)
search_word(word, max_substring_len) ==
    IF ByteSize(word) > max_substring_len THEN str_get(word, 0, max_substring_len)
    ELSE word

\* the rows one word selects for id: the fts rows that hold the word, joined with the
\* rows of the tags table that hold the tag when a tag is given
records(db, id, word, tag) ==
    (IF word \in db.fts[id] THEN 1 ELSE 0)
       * (IF tag.some THEN tag_rows(db, id, tag.tag) ELSE 1)

\* the ngram matches counted for id: one per row, word after word
RECURSIVE ngram_matches(_, _, _, _, _)
ngram_matches(db, id, words, tag, max_substring_len) ==
    IF words = <<>> THEN 0
    ELSE records(db, id, search_word(Head(words), max_substring_len), tag)
         + ngram_matches(db, id, Tail(words), tag, max_substring_len)

\* Fts::search
search(db, text, tag, max_substring_len) ==
    LET words == preprocess_text(text)
        Matches(id) == ngram_matches(db, id, words, tag, max_substring_len)
    IN IF \E i \in 1..Len(words) : search_word(words[i], max_substring_len) = <<>>
       THEN QueryErr("Panics")
       ELSE QueryOk({id \in DOMAIN db.resources :
                       Matches(id) > 0 /\ Matches(id) = Len(words)})

\* Manager::by_text
by_text(db, text, tag) ==
    IF trim_is_empty(text) THEN QueryErr("EmptyTextQuery")
    ELSE search(db, text, tag, MAX_NGRAM)

\* SELECT resources.id FROM resources LEFT JOIN tags WHERE tags.tag = ?1 AND name = ?2
\* AND tags.id = resources.id
select_by_tag_and_name(db, p1, p2) ==
    {id \in DOMAIN db.resources : tag_rows(db, id, p1) > 0 /\ db.resources[id].name = p2}

\* SELECT id FROM resources WHERE name = ?1
select_by_name(db, p1) == {id \in DOMAIN db.resources : db.resources[id].name = p1}

\* Manager::by_name: with a tag, .bind(name).bind(tag)
by_name(db, name, tag) ==
    IF trim_is_empty(name) THEN QueryErr("EmptyNameQuery")
    ELSE IF tag.some THEN QueryOk(select_by_tag_and_name(db, name, tag.tag))
    ELSE QueryOk(select_by_name(db, name))

\* a child_by_name that runs its query whatever the name is
child_by_name_unchecked(db, st, cache, parent, name) ==
    LET found == {id \in DOMAIN db.resources :
                     db.resources[id].parent = parent /\ db.resources[id].name = name}
    IN IF found = {} THEN Outcome("NoSuchResource", "", db, st, cache, <<>>)
       ELSE Manager_get_metadata(db, st, cache, CHOOSE id \in found : TRUE, FALSE)

\* Manager::child_by_name: UNIQUE(parent, name) leaves at most one row
child_by_name(db, st, cache, parent, name) ==
    IF trim_is_empty(name) THEN Outcome("EmptyNameQuery", "", db, st, cache, <<>>)
    ELSE child_by_name_unchecked(db, st, cache, parent, name)

\* Manager::by_tag
by_tag(db, tag) ==
    IF trim_is_empty(tag) THEN QueryErr("EmptyTagQuery")
    ELSE QueryOk({id \in DOMAIN db.resources : tag_rows(db, id, tag) > 0})

\* ORDER BY key DESC LIMIT count: the sets of rows the query can return, rows with
\* equal keys coming in any order
first_rows(db, key, count) ==
    {S \in SUBSET DOMAIN db.resources :
        /\ Cardinality(S) = IF count < Cardinality(DOMAIN db.resources)
                            THEN count ELSE Cardinality(DOMAIN db.resources)
        /\ \A a \in S, b \in DOMAIN db.resources \ S : key[a] >= key[b]}

\* Manager::top_by_frecency: the answers it can give
top_by_frecency(db, count) ==
    IF count = 0 THEN {QueryErr("ZeroCountQuery")}
    ELSE LET score == [id \in DOMAIN db.resources |->
                         frecency(from_binary(db.resources[id].scorer), Utc_now)]
         IN {QueryOk(S) : S \in first_rows(db, score, count)}

\* Manager::last_modified: the answers it can give
last_modified(db, count) ==
    IF count = 0 THEN {QueryErr("ZeroCountQuery")}
    ELSE LET modified == [id \in DOMAIN db.resources |-> db.resources[id].modified]
         IN {QueryOk(S) : S \in first_rows(db, modified, count)}

(***************************************************************************)
(* The state machine: one Manager over one blob store, one call at a time *)
(* (&mut self).  `last` is the call that returned last and its result,     *)
(* `ret` the metadata it returned.                                         *)
(***************************************************************************)
\* scorer: a Scorer value of its own, built by Scorer::add alone
\* added: the visits passed to Scorer::add so far, oldest first
\* uncached: a second manager, built with no metadata cache, and what its last call returned
VARIABLES db, store, cache, last, ret, ops, scorer, added, uncached

vars == <<db, store, cache, last, ret, ops, scorer, added, uncached>>

InputMetas ==
    {set_dates(ResourceMetadata_new(id, parent, kind, Profiles[p].name, Profiles[p].tags,
                                    Profiles[p].variants),
               Profiles[p].created, Profiles[p].modified) :
        id \in Ids, parent \in Ids, kind \in Kinds, p \in 1..MaxNames}

Contents == {NoContent, SomeContent("default")}

\* the blob store calls one operation makes: create, update, delete_variant and
\* get_container make two, a delete one per descendant and two more
TwoCalls == 0..2

DeleteCalls == 0..(MaxId + 2)

NoFailure == {0}

Call(op, id, out) ==
    [op |-> op, id |-> id, result |-> out.result, failed |-> out.failed]

Returns(op, id, out) ==
    /\ db' = out.db
    /\ store' = out.store
    /\ cache' = out.cache
    /\ ret' = out.ret
    /\ last' = Call(op, id, out)
    /\ ops' = ops + 1
    /\ UNCHANGED <<scorer, added, uncached>>

\* a call can be made: the previous one returned, and the behaviour is not at its bound
Ready(bound) == ops < bound /\ last.result # "Diverges"

Init ==
    /\ db = EmptyDb
    /\ store = EmptyStore
    /\ cache = <<>>
    /\ ret = <<>>
    /\ last = [op |-> "new", id |-> ROOT_ID, result |-> "Ok", failed |-> ""]
    /\ ops = 0
    /\ scorer = DefaultScorer
    /\ added = <<>>
    /\ uncached = [db |-> EmptyDb, store |-> EmptyStore, result |-> "Ok", ret |-> <<>>]

CreateRoot(fails, bound) ==
    /\ Ready(bound)
    /\ \E fail \in fails :
          Returns("create_root", ROOT_ID, Manager_create_root(db, store, cache, fail))

Create(metas, contents, fails, bound) ==
    /\ Ready(bound)
    /\ \E m \in metas, content \in contents, fail \in fails :
          Returns("create", m.id, Manager_create(db, store, cache, m, content, fail))

Update(metas, contents, fails, bound) ==
    /\ Ready(bound)
    /\ \E m \in metas, content \in contents, fail \in fails :
          Returns("update", m.id, Manager_update(db, store, cache, m, content, fail))

Delete(fails, bound) ==
    /\ Ready(bound)
    /\ \E id \in Ids, fail \in fails :
          \E order \in (IF is_container(db, id) /\ to_delete_of(db, id).ends
                        THEN Orders(to_delete_of(db, id).to_delete) ELSE {<<>>}) :
             Returns("delete", id, Manager_delete(db, store, cache, id, order, fail))

DeleteVariant(fails, bound) ==
    /\ Ready(bound)
    /\ \E id \in Ids, name \in VariantNames, fail \in fails :
          Returns("delete_variant", id,
                  Manager_delete_variant(db, store, cache, id, name, fail))

\* the metadata a caller passes to visit: what the last call returned, or a row of the index
VisitMetas == Range(ret) \cup {row_metadata(db, i) : i \in DOMAIN db.resources}

Visit(bound) ==
    /\ Ready(bound)
    /\ \E m \in VisitMetas, e \in VisitEntries :
          /\ m.scorer.visit_count < MaxVisitCount
          /\ Returns("visit", m.id, Manager_visit(db, store, cache, m, e))

GetMetadata(fails, bound) ==
    /\ Ready(bound)
    /\ \E id \in Ids, fail \in fails :
          Returns("get_metadata", id, Manager_get_metadata(db, store, cache, id, fail = 1))

GetContainer(fails, bound) ==
    /\ Ready(bound)
    /\ \E id \in Ids, fail \in fails :
          Returns("get_container", id, Manager_get_container(db, store, cache, id, fail))

Clear(bound) ==
    /\ Ready(bound)
    /\ Returns("clear", ROOT_ID, Outcome("Ok", "", Manager_clear(db), store, cache, <<>>))

\* every operation, on every input, with every blob store failure
Next ==
    \/ CreateRoot(TwoCalls, MaxOps)
    \/ Create(InputMetas, Contents, TwoCalls, MaxOps)
    \/ Update(InputMetas, Contents, TwoCalls, MaxOps)
    \/ Delete(DeleteCalls, MaxOps)
    \/ DeleteVariant(TwoCalls, MaxOps)
    \/ Visit(MaxOps)
    \/ GetMetadata(TwoCalls, MaxOps)
    \/ GetContainer(TwoCalls, MaxOps)
    \/ Clear(MaxOps)

Spec == Init /\ [][Next]_vars

\* longer behaviours of the operations that shape the tree, the blob store never failing
NextTree ==
    \/ CreateRoot(NoFailure, MaxTreeOps)
    \/ Create(InputMetas, {NoContent}, NoFailure, MaxTreeOps)
    \/ Update(InputMetas, {NoContent}, NoFailure, MaxTreeOps)
    \/ Delete(NoFailure, MaxTreeOps)

SpecTree == Init /\ [][NextTree]_vars

\* the operations that write metadata, the blob store never failing, every call
\* returning Ok
CreateRootOk == CreateRoot(NoFailure, MaxWriteOps) /\ last'.result = "Ok"

CreateOk == Create(InputMetas, {NoContent}, NoFailure, MaxWriteOps) /\ last'.result = "Ok"

UpdateOk == Update(InputMetas, {NoContent}, NoFailure, MaxWriteOps) /\ last'.result = "Ok"

DeleteVariantOk == DeleteVariant(NoFailure, MaxWriteOps) /\ last'.result = "Ok"

VisitOk == Visit(MaxWriteOps) /\ last'.result = "Ok"

NextWrites == CreateRootOk \/ CreateOk \/ UpdateOk \/ DeleteVariantOk \/ VisitOk

SpecWrites == Init /\ [][NextWrites]_vars

\* the visits added to the scorer: a VeryHigh one now, a High one ten days ago,
\* a Normal one a hundred days ago
ScorerEntries ==
    {[timestamp |-> Utc_now, priority |-> "VeryHigh"],
     [timestamp |-> Utc_now - 10, priority |-> "High"],
     [timestamp |-> Utc_now - 100, priority |-> "Normal"]}

\* Scorer::add on a scorer that began as Scorer::default()
ScorerAdd ==
    /\ scorer.visit_count < MaxAdds
    /\ \E e \in ScorerEntries : scorer' = Scorer_add(scorer, e) /\ added' = Append(added, e)
    /\ UNCHANGED <<db, store, cache, last, ret, ops, uncached>>

SpecScorer == Init /\ [][ScorerAdd]_vars

GetFullPath(bound) ==
    /\ Ready(bound)
    /\ \E id \in Ids :
          Returns("get_full_path", id, Manager_get_full_path(db, store, cache, id))

\* trees that updates bend, an index that is cleared, and paths read from them
NextPath ==
    \/ CreateRoot(NoFailure, MaxPathOps)
    \/ Create(InputMetas, {NoContent}, NoFailure, MaxPathOps)
    \/ Update(InputMetas, {NoContent}, NoFailure, MaxPathOps)
    \/ Clear(MaxPathOps)
    \/ GetFullPath(MaxPathOps)

SpecPath == Init /\ [][NextPath]_vars

\* the names and tags of the resources that are searched for; a tag is a text
SearchProfiles ==
    {[name |-> <<"a">>, tags |-> << <<"c">> >>],
     [name |-> <<"c">>, tags |-> << <<"a">> >>],
     [name |-> <<"A", "b">>, tags |-> << <<"c">>, <<"c">> >>],
     [name |-> <<"b", " ", "a">>, tags |-> <<>>],
     [name |-> <<"a", "b", "c", "a", "b", "c">>, tags |-> << <<"a">>, <<"c">> >>]}

SearchMetas ==
    {set_dates(ResourceMetadata_new(id, ROOT_ID, kind, p.name, p.tags, <<>>), 1, 1) :
        id \in Ids \ {ROOT_ID}, kind \in Kinds, p \in SearchProfiles}

\* an index of named and tagged resources under the root
NextSearch ==
    \/ CreateRoot(NoFailure, MaxSearchOps)
    \/ Create(SearchMetas, {NoContent}, NoFailure, MaxSearchOps)
    \/ Update(SearchMetas, {NoContent}, NoFailure, MaxSearchOps)

SpecSearch == Init /\ [][NextSearch]_vars

\* the orders in which delete may visit what is below id
delete_orders(d, id) ==
    IF is_container(d, id) /\ to_delete_of(d, id).ends
    THEN Orders(to_delete_of(d, id).to_delete) ELSE {<<>>}

\* the same call made on the manager and on the manager without cache
Both(op, id, out, twin) ==
    /\ db' = out.db
    /\ store' = out.store
    /\ cache' = out.cache
    /\ ret' = out.ret
    /\ last' = Call(op, id, out)
    /\ ops' = ops + 1
    /\ uncached' = [db |-> twin.db, store |-> twin.store, result |-> twin.result,
                    ret |-> twin.ret]
    /\ UNCHANGED <<scorer, added>>

\* one sequence of calls run on two managers over stores of their own: one with the
\* metadata cache, one whose every read goes to the index, then to the blob store
Lockstep(bound) ==
    /\ Ready(bound) /\ uncached.result # "Diverges"
    /\ \/ \E fail \in TwoCalls :
             Both("create_root", ROOT_ID, Manager_create_root(db, store, cache, fail),
                  Manager_create_root(uncached.db, uncached.store, <<>>, fail))
       \/ \E m \in InputMetas, fail \in TwoCalls :
             Both("create", m.id, Manager_create(db, store, cache, m, NoContent, fail),
                  Manager_create(uncached.db, uncached.store, <<>>, m, NoContent, fail))
       \/ \E m \in InputMetas, fail \in TwoCalls :
             Both("update", m.id, Manager_update(db, store, cache, m, NoContent, fail),
                  Manager_update(uncached.db, uncached.store, <<>>, m, NoContent, fail))
       \/ \E id \in Ids :
             \E order \in delete_orders(db, id), twin \in delete_orders(uncached.db, id) :
                Both("delete", id, Manager_delete(db, store, cache, id, order, 0),
                     Manager_delete(uncached.db, uncached.store, <<>>, id, twin, 0))
       \/ Both("clear", ROOT_ID, Outcome("Ok", "", Manager_clear(db), store, cache, <<>>),
               Outcome("Ok", "", Manager_clear(uncached.db), uncached.store, <<>>, <<>>))
       \/ \E id \in Ids :
             Both("get_metadata", id, Manager_get_metadata(db, store, cache, id, FALSE),
                  Manager_get_metadata(uncached.db, uncached.store, <<>>, id, FALSE))
       \/ \E id \in Ids :
             Both("get_container", id, Manager_get_container(db, store, cache, id, 0),
                  Manager_get_container(uncached.db, uncached.store, <<>>, id, 0))
       \/ \E id \in Ids :
             Both("get_full_path", id, Manager_get_full_path(db, store, cache, id),
                  Manager_get_full_path(uncached.db, uncached.store, <<>>, id))

SpecPair == Init /\ [][Lockstep(MaxPairOps)]_vars

\* empty and whitespace-only strings
BlankTexts == {<<>>, <<" ">>, <<" ", " ">>}

AskedTexts == BlankTexts \cup {<<"a">>, <<"c">>}

AskedTags == {NoTag, SomeTag(<<"c">>)}

MaxCount == 2

Answers(op, q) == Returns(op, ROOT_ID, Outcome(q.result, "", db, store, cache, <<q.ids>>))

\* the queries of the manager, with degenerate arguments among the others
Query(bound) ==
    /\ Ready(bound)
    /\ \E text \in AskedTexts, tag \in AskedTags, count \in 0..MaxCount, parent \in Ids :
          \/ Answers("by_name", by_name(db, text, tag))
          \/ Returns("child_by_name", parent, child_by_name(db, store, cache, parent, text))
          \/ Answers("by_tag", by_tag(db, text))
          \/ Answers("by_text", by_text(db, text, tag))
          \/ \E q \in top_by_frecency(db, count) : Answers("top_by_frecency", q)
          \/ \E q \in last_modified(db, count) : Answers("last_modified", q)

NextQueries ==
    \/ CreateRoot(NoFailure, MaxSearchOps)
    \/ Create(SearchMetas, {NoContent}, NoFailure, MaxSearchOps)
    \/ Update(SearchMetas, {NoContent}, NoFailure, MaxSearchOps)
    \/ Query(MaxSearchOps)

SpecQueries == Init /\ [][NextQueries]_vars

\* the texts of find_ngrams and texts with a letter that remove_diacritics keeps
NgramTexts ==
    { <<"H", "e", "l", "l", "o", " ", "W", "o", "r", "l", "d">>,
      <<"c", "h", "i", "l", "d", " ", "#", "1", "7">>,
      <<"0">>, <<>>, <<" ">>, <<"a", "b", " ", "a", "b">>, <<"É", "ß">>,
      <<"µ">>, <<"a", "µ">>, <<"µ", "a">>, <<"a", " ", "µ">> }

\* fts::ngrams called on a text with a maximum substring length
Ngrams(bound) ==
    /\ Ready(bound)
    /\ \E text \in NgramTexts, n \in 1..MAX_NGRAM :
          Returns("ngrams", ROOT_ID,
                  Outcome("Ok", "", db, store, cache,
                          <<[text |-> text, max_substring_len |-> n,
                             res |-> ngrams(text, n)]>>))

SpecNgrams == Init /\ [][Ngrams(MaxSearchOps)]_vars

(***************************************************************************)
(* Properties                                                              *)
(***************************************************************************)

\* C1: blob consistency: every resource row of the index has a metadata blob in
\* the blob store, whatever operations ran and whichever blob store calls failed.
C1_BlobConsistent ==
    \A i \in DOMAIN db.resources : i \in DOMAIN store.meta

\* the errors a blob store call returns
BlobErrors == {"Io", "ResourceAlreadyExists", "InvalidVariant", "NoSuchResource"}

\* C2: rollback on blob failure: a create (an update) whose blob store create
\* (update) call failed returns the error of that call and leaves the index, rows,
\* tags, variants and n-grams, exactly as it was before the operation.
C2_RollbackOnBlobFailure ==
    [][(/\ last'.op \in {"create_root", "create", "update"}
        /\ last'.failed \in {"create", "update"})
       => (/\ db' = db
           /\ last'.result \in BlobErrors
           /\ has_object(db', last'.id) = has_object(db, last'.id)
           /\ resource_count(db') = resource_count(db))]_vars

\* a create or an update has just failed in its blob store call, on a non-empty index
C2_BlobWriteFailed ==
    /\ last.op \in {"create", "update"}
    /\ last.failed \in {"create", "update"}
    /\ last.result \in BlobErrors
    /\ resource_count(db) > 0

\* following parent links from id reaches ROOT in at most `steps` steps
RECURSIVE ReachesRoot(_, _, _)
ReachesRoot(d, id, steps) ==
    IF is_root(id) THEN TRUE
    ELSE IF steps = 0 \/ ~has_object(d, id) THEN FALSE
    ELSE ReachesRoot(d, d.resources[id].parent, steps - 1)

\* C3: acyclicity: from every non-root resource of the index the parent links lead
\* to ROOT in finitely many steps, after any creates, updates and deletes.
C3_Acyclic ==
    \A i \in DOMAIN db.resources : ReachesRoot(db, i, Cardinality(DOMAIN db.resources))

\* C4: parent typing: every non-root resource of the index has a parent other than
\* itself that is in the index with kind Container.
C4_ParentTyping ==
    \A i \in DOMAIN db.resources :
       ~is_root(i) => /\ db.resources[i].parent # i
                      /\ is_container(db, db.resources[i].parent)

\* C5 as stated: a ROOT resource in the index has parent ROOT and kind Container.
C5_RootShape ==
    has_object(db, ROOT_ID) =>
       db.resources[ROOT_ID].parent = ROOT_ID /\ db.resources[ROOT_ID].kind = "Container"

\* C5 as amended: the ROOT resource that create_root stores has parent ROOT and
\* kind Container.
C5_CreateRootShape ==
    (last.op = "create_root" /\ last.result = "Ok") =>
       /\ has_object(db, ROOT_ID)
       /\ db.resources[ROOT_ID].parent = ROOT_ID
       /\ db.resources[ROOT_ID].kind = "Container"

\* create_root has just stored the root
C5_RootCreated ==
    last.op = "create_root" /\ last.result = "Ok" /\ has_object(db, ROOT_ID)

\* C6: unique sibling names: no two resources of the index have the same parent
\* and the same name, whatever creates, updates and re-hydrations ran.
C6_UniqueSiblingNames ==
    \A i, j \in DOMAIN db.resources :
       (/\ db.resources[i].parent = db.resources[j].parent
        /\ db.resources[i].name = db.resources[j].name) => i = j

\* an update that would have given a resource the parent and name of another one
\* has just been refused
C6_RenameRefused ==
    /\ last.op = "update"
    /\ last.result = "Sql"
    /\ resource_count(db) > 1

\* a resource of the index has this parent and this name
sibling_named(d, parent, name) ==
    \E i \in DOMAIN d.resources :
       d.resources[i].parent = parent /\ d.resources[i].name = name

\* C7: a create that passes the container precheck and whose id is in the index,
\* or whose parent and name are those of a resource of the index, fails with
\* ResourceAlreadyExists and changes nothing.
C7_DuplicateCreateAlreadyExists ==
    \A m \in InputMetas, content \in Contents :
       (/\ check_container_leaf(db, m.id, m.parent) = "Ok"
        /\ (has_object(db, m.id) \/ sibling_named(db, m.parent, m.name)))
       => LET out == Manager_create(db, store, cache, m, content, 0)
          IN /\ out.result = "ResourceAlreadyExists"
             /\ out.db = db /\ out.store = store /\ out.cache = cache

\* the cases the container precheck refuses
precheck_refuses(d, id, parent) ==
    \/ id = parent /\ ~is_root(id)
    \/ ~is_root(id) /\ ~is_container(d, parent)

\* C8: container precheck: a create or an update whose id is its own parent and is
\* not ROOT, or whose id is not ROOT and whose parent is no Container of the index,
\* fails with InvalidContainerId and leaves index, blob store and cache unchanged.
C8_ContainerPrecheck ==
    \A m \in InputMetas, content \in Contents, fail \in TwoCalls :
       precheck_refuses(db, m.id, m.parent)
       => LET c == Manager_create(db, store, cache, m, content, fail)
              u == Manager_update(db, store, cache, m, content, fail)
          IN /\ c.result = "InvalidContainerId"
             /\ c.db = db /\ c.store = store /\ c.cache = cache
             /\ u.result = "InvalidContainerId"
             /\ u.db = db /\ u.store = store /\ u.cache = cache

\* a create or an update of a resource under a parent that is no container of a
\* non-empty index has just been refused
C8_PrecheckRefused ==
    /\ last.op \in {"create", "update"}
    /\ last.result = "InvalidContainerId"
    /\ ~has_object(db, last.id)
    /\ resource_count(db) > 0

\* the index is a tree: the root is a container and its own parent, every other
\* resource has a container of the index as parent, and parent links lead to ROOT
tree_shaped(d) ==
    /\ has_object(d, ROOT_ID)
    /\ d.resources[ROOT_ID].parent = ROOT_ID /\ d.resources[ROOT_ID].kind = "Container"
    /\ \A i \in DOMAIN d.resources :
          /\ ~is_root(i) => d.resources[i].parent # i /\ is_container(d, d.resources[i].parent)
          /\ ReachesRoot(d, i, Cardinality(DOMAIN d.resources))

\* id is reached from i by one or more parent links
RECURSIVE below(_, _, _, _)
below(d, i, id, steps) ==
    /\ steps > 0
    /\ has_object(d, i)
    /\ d.resources[i].parent # i
    /\ \/ d.resources[i].parent = id
       \/ below(d, d.resources[i].parent, id, steps - 1)

descendants(d, id) ==
    {i \in DOMAIN d.resources : below(d, i, id, Cardinality(DOMAIN d.resources))}

\* the rows of the four tables for resource i
rows_of(d, i) == <<d.resources[i], d.tags[i], d.variants[i], d.fts[i]>>

\* C9: cascade delete: on a tree-shaped index, a delete that returns Ok removes the
\* rows of the resource and of all its descendants and leaves every other row as it
\* was; the delete of a leaf removes the rows of the leaf alone.
C9_CascadeDelete ==
    tree_shaped(db) =>
       \A id \in DOMAIN db.resources :
          \A order \in (IF is_container(db, id) THEN Orders(to_delete_of(db, id).to_delete)
                        ELSE {<<>>}) :
             LET out == Manager_delete(db, store, cache, id, order, 0)
                 gone == {id} \cup descendants(db, id)
             IN out.result = "Ok"
                => /\ DOMAIN out.db.resources = DOMAIN db.resources \ gone
                   /\ \A i \in gone : ~has_object(out.db, i)
                   /\ \A i \in DOMAIN out.db.resources : rows_of(out.db, i) = rows_of(db, i)
                   /\ ~is_container(db, id) => gone = {id}

\* a delete has just removed a container and the children its listing names: the
\* listing is still in the blob store, the children are in neither store
C9_CascadeDeleted ==
    /\ last.op = "delete" /\ last.result = "Ok"
    /\ ~is_root(last.id)
    /\ tree_shaped(db)
    /\ ~has_object(db, last.id)
    /\ <<last.id, "default">> \in DOMAIN store.variants
    /\ store.variants[<<last.id, "default">>].ids # <<>>
    /\ \A c \in Range(store.variants[<<last.id, "default">>].ids) :
          ~has_object(db, c) /\ c \notin DOMAIN store.meta

\* C10: delete is idempotent under replay: after a delete of a container that
\* returned an error because a blob delete of the cascade failed, the same delete,
\* the blob store failing no more, returns Ok and leaves neither the rows nor the
\* blobs of the container and its descendants.
C10_DeleteReplay ==
    (/\ last.op = "delete" /\ last.failed = "delete" /\ last.result = "Io"
     /\ is_container(db, last.id)
     /\ to_delete_of(db, last.id).ends)
    => \A order \in Orders(to_delete_of(db, last.id).to_delete) :
          LET out == Manager_delete(db, store, cache, last.id, order, 0)
              gone == {last.id} \cup to_delete_of(db, last.id).to_delete
          IN /\ out.result = "Ok"
             /\ \A i \in gone : ~has_object(out.db, i) /\ i \notin DOMAIN out.store.meta

\* two results of get_metadata are Ok and return the same metadata, field for
\* field, the scorers compared by their visit counts and their frecency
same_metadata(a, b) ==
    /\ a.result = "Ok" /\ b.result = "Ok"
    /\ [a.ret[1] EXCEPT !.scorer = 0] = [b.ret[1] EXCEPT !.scorer = 0]
    /\ a.ret[1].scorer.visit_count = b.ret[1].scorer.visit_count
    /\ frecency(a.ret[1].scorer, Utc_now) = frecency(b.ret[1].scorer, Utc_now)

\* get_metadata of each id of ids in turn: the index and the cache afterwards
RECURSIVE read_each(_, _, _, _, _)
read_each(d, st, c, ids, k) ==
    IF k > Len(ids) THEN [db |-> d, cache |-> c]
    ELSE LET got == Manager_get_metadata(d, st, c, ids[k], FALSE)
         IN read_each(got.db, st, got.cache, ids, k + 1)

\* C11: re-hydration round trip: for every resource of a state reached by
\* successful writes, get_metadata after clear() returns the metadata that
\* get_metadata returned just before clear(), both while the id is still in the
\* cache and after reads of the other resources have pushed it out.
C11_RehydrationRoundTrip ==
    \A id \in DOMAIN db.resources :
       LET before == Manager_get_metadata(db, store, cache, id, FALSE)
           cleared == Manager_clear(before.db)
           cached == Manager_get_metadata(cleared, store, before.cache, id, FALSE)
           read == read_each(cleared, store, before.cache,
                             SortedSeq(DOMAIN store.meta \ {id}), 1)
           later == Manager_get_metadata(read.db, store, read.cache, id, FALSE)
       IN same_metadata(cached, before) /\ same_metadata(later, before)

\* C12: reads re-populate the index: when get_metadata(id) has returned Ok,
\* the index holds a row for id
C12_ReadRepopulatesIndex ==
    (last.op = "get_metadata" /\ last.result = "Ok") => has_object(db, last.id)

\* C13: get_metadata(id) returns NoSuchResource whenever id has neither a row
\* in the index nor a metadata blob in the store, also after a create or an
\* update that failed
C13_AbsentIsNoSuchResource ==
    \A id \in Ids :
       (~has_object(db, id) /\ id \notin DOMAIN store.meta)
          => Manager_get_metadata(db, store, cache, id, FALSE).result = "NoSuchResource"

\* the blobs of the variants listed in the stored metadata of id all exist
listed_variants_exist(st, id) ==
    \A i \in 1..Len(st.meta[id].variants) :
       store_get_variant(st, id, st.meta[id].variants[i].name, FALSE).ok

\* C14 as stated: after a create or an update that returned Ok, every
\* variant listed in the metadata of the resource has a blob in the store
C14_ListedVariantsExist ==
    (last.op \in {"create", "update"} /\ last.result = "Ok")
       => listed_variants_exist(store, last.id)

\* C14 as the code has it: after a create or an update of a leaf that was
\* passed content for a variant and returned Ok, get_variant succeeds for
\* that variant
C14_PassedVariantExists ==
    \A m \in InputMetas, content \in Contents, fail \in TwoCalls :
       LET created == Manager_create(db, store, cache, m, content, fail)
           updated == Manager_update(db, store, cache, m, content, fail)
       IN (m.kind = "Leaf" /\ content.some)
             => /\ created.result = "Ok"
                   => store_get_variant(created.store, m.id, content.name, FALSE).ok
                /\ updated.result = "Ok"
                   => store_get_variant(updated.store, m.id, content.name, FALSE).ok

\* a leaf has just been written and the blob of its default variant is there
C14_LeafBlobWritten ==
    /\ last.op \in {"create", "update"} /\ last.result = "Ok"
    /\ last.id \in DOMAIN store.meta /\ store.meta[last.id].kind = "Leaf"
    /\ children_of(db, last.id) = {}
    /\ store_get_variant(store, last.id, "default", FALSE).ok

\* the metadata callers pass to update: new ones, and visited ones
UpdateMetas == InputMetas \cup {update_scorer(m, e) : m \in InputMetas, e \in VisitEntries}

\* a read returned metadata equal to m: every field, and the score
reads_back(out, m) ==
    /\ out.result = "Ok"
    /\ [out.ret[1] EXCEPT !.scorer = 0] = [m EXCEPT !.scorer = 0]
    /\ frecency(out.ret[1].scorer, Utc_now) = frecency(m.scorer, Utc_now)

\* the other resources of the index, read one after the other
read_others(d, st, c, id) ==
    read_each(d, st, c, SortedSeq(DOMAIN d.resources \ {id}), 1)

\* C15: update read-back: after update(m, content) has returned Ok,
\* get_metadata(m.id) returns metadata equal to m, from the cache and, once
\* the cache has lost the entry, from the index
C15_UpdateReadBack ==
    \A m \in UpdateMetas, content \in Contents :
       LET updated == Manager_update(db, store, cache, m, content, 0)
           cached == Manager_get_metadata(updated.db, updated.store, updated.cache,
                                          m.id, FALSE)
           others == read_others(updated.db, updated.store, updated.cache, m.id)
           later == Manager_get_metadata(others.db, updated.store, others.cache,
                                         m.id, FALSE)
           missed == Manager_get_metadata(updated.db, updated.store,
                                          cache_without(updated.cache, m.id), m.id, FALSE)
       IN updated.result = "Ok"
             => reads_back(cached, m) /\ reads_back(later, m) /\ reads_back(missed, m)

\* an update has returned Ok, and reading the other resources takes its
\* metadata out of the cache: the next read is served from the index
C15_UpdatedThenEvicted ==
    /\ last.op = "update" /\ last.result = "Ok"
    /\ last.id \in cache_ids(cache)
    /\ last.id \notin cache_ids(read_others(db, store, cache, last.id).cache)
    /\ has_object(db, last.id)

\* C16: create/delete inverse: for a resource m that is neither in the index
\* nor in the store, create(m) then delete(m.id), both returning Ok, leave
\* the index (resources, tags, variants, full text rows) as it was
C16_CreateDeleteInverse ==
    \A m \in InputMetas :
       (~has_object(db, m.id) /\ m.id \notin DOMAIN store.meta)
          => LET created == Manager_create(db, store, cache, m, NoContent, 0)
             IN \A order \in delete_orders(created.db, m.id) :
                   LET deleted == Manager_delete(created.db, created.store, created.cache,
                                                 m.id, order, 0)
                   IN (created.result = "Ok" /\ deleted.result = "Ok")
                         => deleted.db = db

\* C17: visit counts: with m the metadata get_metadata(id) returns, after
\* visit(m, e) has returned Ok the next get_metadata(id) returns metadata
\* whose visit_count is m's plus one
C17_VisitCounts ==
    \A id \in Ids, e \in VisitEntries :
       LET got == Manager_get_metadata(db, store, cache, id, FALSE)
           visited == Manager_visit(got.db, got.store, got.cache, got.ret[1], e)
           next == Manager_get_metadata(visited.db, visited.store, visited.cache, id, FALSE)
       IN (got.result = "Ok" /\ visited.result = "Ok")
             => /\ next.result = "Ok"
                /\ next.ret[1].scorer.visit_count = got.ret[1].scorer.visit_count + 1

\* every visit a caller can add: any priority, at an instant not after now
AnyEntries ==
    [timestamp : {Utc_now, Utc_now - 4, Utc_now - 5, Utc_now - 14, Utc_now - 15,
                  Utc_now - 31, Utc_now - 32, Utc_now - 90, Utc_now - 91},
     priority : {"Normal", "High", "VeryHigh"}]

\* C18 as stated: a visit never lowers the score: for every scorer built by
\* adds and every visit e, the frecency after add(e) is at least the frecency
\* before, also when the log is full and the oldest visit is dropped
C18_AddNeverLowers ==
    \A e \in AnyEntries :
       frecency(Scorer_add(scorer, e), Utc_now) >= frecency(scorer, Utc_now)

\* C18 as the code has it: while the log holds fewer than MAX_VISIT_ENTRIES
\* visits, add(e) never lowers the frecency
C18_AddNeverLowersBelowCap ==
    \A e \in AnyEntries :
       Len(scorer.entries) < MAX_VISIT_ENTRIES
          => frecency(Scorer_add(scorer, e), Utc_now) >= frecency(scorer, Utc_now)

\* the log is one short of full, and the last visit added was worth less than
\* the one before it
C18_LowVisitAdded ==
    /\ Len(scorer.entries) = MAX_VISIT_ENTRIES - 1
    /\ scorer.entries[Len(scorer.entries)].priority = "Normal"
    /\ scorer.entries[Len(scorer.entries) - 1].priority = "VeryHigh"

\* the texts and the tags of the queries
QueryTexts ==
    {<<"a">>, <<"c">>, <<"A">>, <<"a", "b">>, <<"b", "a">>, <<"a", " ", "b">>,
     <<"a", " ", "a">>, <<"a", " ", "z">>, <<"z">>, <<"/">>,
     <<"a", "b", "c", "a", "b", "c">>, <<"a", "b", "c", "a", "b", "z">>,
     <<"b", "c", "a", "b", "c">>, <<"A", "b">>, <<"b", " ", "a">>}

QueryTags == {NoTag, SomeTag(<<"a">>), SomeTag(<<"c">>), SomeTag(<<"z">>)}

\* a token of a query, cut to its first MAX_NGRAM characters
token(word) == IF Len(word) > MAX_NGRAM THEN SubSeq(word, 1, MAX_NGRAM) ELSE word

\* the resources that have an n-gram row for every token of the query and carry the tag
text_matches(d, text, tag) ==
    {id \in DOMAIN d.resources :
        /\ \A i \in 1..Len(preprocess_text(text)) :
              token(preprocess_text(text)[i]) \in d.fts[id]
        /\ tag.some => tag.tag \in Range(d.tags[id])}

\* C19: text search: by_text(q, tag) returns X if and only if every token of
\* the preprocessed query, cut to 5 characters, has an n-gram row for X and X
\* carries the tag when one is given; also for resources that list a tag
\* twice and for queries that repeat a token
C19_TextSearch ==
    \A text \in QueryTexts, tag \in QueryTags :
       by_text(db, text, tag) = QueryOk(text_matches(db, text, tag))

\* C20: by_name(name, Some(tag)) returns exactly the ids of the resources
\* whose name is `name` and that carry `tag`; by_name(name, None) exactly the
\* ids of the resources whose name is `name`
C20_ByName ==
    \A name \in QueryTexts, tag \in QueryTags :
       by_name(db, name, tag)
          = QueryOk({id \in DOMAIN db.resources :
                       /\ db.resources[id].name = name
                       /\ tag.some => tag.tag \in Range(db.tags[id])})

\* C21: get_full_path result shape: when get_full_path(id) returns Ok(path),
\* path[0] is the ROOT resource, the last element has id = id, and each
\* element after the first has as parent the id of the element before it
C21_FullPathShape ==
    (last.op = "get_full_path" /\ last.result = "Ok")
       => /\ Len(ret) >= 1
          /\ is_root(ret[1].id)
          /\ ret[Len(ret)].id = last.id
          /\ \A i \in 2..Len(ret) : ret[i].parent = ret[i - 1].id

\* a path of three resources has been returned
C21_PathOfThree ==
    last.op = "get_full_path" /\ last.result = "Ok" /\ Len(ret) = 3

\* the resources the manager can resolve: in the cache, the index or the blob store
known_ids == DOMAIN db.resources \cup DOMAIN store.meta \cup cache_ids(cache)

\* the parent recorded for id where get_metadata finds id first
parent_link(id) ==
    IF id \in cache_ids(cache) THEN cache_get(cache, id).parent
    ELSE IF has_object(db, id) THEN db.resources[id].parent
    ELSE store.meta[id].parent

\* how the chain of parent links that starts at id ends
RECURSIVE chain_end(_, _)
chain_end(id, visited) ==
    IF id \in visited THEN "ResourceCycle"
    ELSE IF id \notin known_ids THEN "NoSuchResource"
    ELSE IF is_root(id) THEN "Ok"
    ELSE chain_end(parent_link(id), visited \cup {id})

listing_of(d, P) == serialize_ids({i \in DOMAIN d.resources : d.resources[i].parent = P} \ {P})

listing_rewritten(out, P) ==
    out.result = "Ok"
       => /\ <<P, "default">> \in DOMAIN out.store.variants
          /\ out.store.variants[<<P, "default">>] = listing_of(out.db, P)

\* C23: after create, update or delete of a non-root resource R with parent P
\* returns Ok, the default variant of P in the blob store holds exactly the ids
\* whose parent is P in the committed index: R is among them after create and
\* update, and is not after delete.
C23_ParentListingRewritten ==
    /\ \A m \in InputMetas : \A content \in Contents :
          ~is_root(m.id)
             => LET created == Manager_create(db, store, cache, m, content, 0)
                    updated == Manager_update(db, store, cache, m, content, 0)
                IN /\ listing_rewritten(created, m.parent)
                   /\ listing_rewritten(updated, m.parent)
                   /\ created.result = "Ok"
                         => has_object(created.db, m.id) /\ created.db.resources[m.id].parent = m.parent
                   /\ updated.result = "Ok"
                         => has_object(updated.db, m.id) /\ updated.db.resources[m.id].parent = m.parent
    /\ \A id \in DOMAIN db.resources \ {ROOT_ID} : \A order \in delete_orders(db, id) :
          LET deleted == Manager_delete(db, store, cache, id, order, 0)
          IN /\ listing_rewritten(deleted, db.resources[id].parent)
             /\ deleted.result = "Ok" => ~has_object(deleted.db, id)

\* a delete of the root's only child has returned Ok and the root's listing is
\* the empty list again
C23_ListingEmptied ==
    /\ last.op = "delete" /\ last.result = "Ok" /\ ~is_root(last.id)
    /\ has_object(db, ROOT_ID)
    /\ <<ROOT_ID, "default">> \in DOMAIN store.variants
    /\ store.variants[<<ROOT_ID, "default">>] = serialize_ids({})

\* the ids get_container returned after the container's own metadata
listed_children(out) == {out.ret[i].id : i \in 2..Len(out.ret)}

\* C24: in every state reached by successful or failed create, update and
\* delete operations, get_container(P) returns exactly the resources whose
\* parent is P in the index: no id that has another parent, none that is not
\* in the index
C24_ContainerMatchesIndex ==
    \A P \in Ids :
       LET got == Manager_get_container(db, store, cache, P, 0)
       IN got.result = "Ok"
             => listed_children(got) = {i \in DOMAIN got.db.resources :
                                           got.db.resources[i].parent = P} \ {P}

\* the payload of P's default variant, or <<>> when the store has no such blob
listing_blob(st, P) ==
    IF <<P, "default">> \in DOMAIN st.variants THEN <<st.variants[<<P, "default">>]>> ELSE <<>>

\* C25: when create or update of a non-root resource R with parent P returns
\* the error of a blob-store call, the payload of P's default variant in the
\* blob store is the same as before the operation
C25_FailedWriteKeepsListing ==
    \A m \in InputMetas : \A content \in Contents : \A fail \in {0} \cup TwoCalls :
       ~is_root(m.id)
          => LET created == Manager_create(db, store, cache, m, content, fail)
                 updated == Manager_update(db, store, cache, m, content, fail)
             IN /\ created.failed # ""
                      => listing_blob(created.store, m.parent) = listing_blob(store, m.parent)
                /\ updated.failed # ""
                      => listing_blob(updated.store, m.parent) = listing_blob(store, m.parent)

index_has_variant(d, id, name) ==
    has_object(d, id) /\ \E i \in 1..Len(d.variants[id]) : d.variants[id][i].name = name

\* C26: after delete_variant(id, name) returns Ok, the metadata the next
\* get_metadata(id) returns lists no variant called name, the index has no
\* variants row (id, name) and the blob store has no blob for (id, name)
C26_DeleteVariantTakesEffect ==
    \A id \in Ids : \A name \in VariantNames :
       LET deleted == Manager_delete_variant(db, store, cache, id, name, 0)
           got == Manager_get_metadata(deleted.db, deleted.store, deleted.cache, id, FALSE)
       IN deleted.result = "Ok"
             => /\ got.result = "Ok" => ~has_variant(got.ret[1], name)
                /\ ~index_has_variant(deleted.db, id, name)
                /\ <<id, name>> \notin DOMAIN deleted.store.variants

\* C27: delete_variant(id, "default") on a Container that has at least one
\* child returns an error and leaves the container's child listing blob, the
\* rows of the index and the metadata blobs as they were
C27_ListingNotDeletable ==
    \A id \in Ids :
       (is_container(db, id) /\ children_of(db, id) # {})
          => LET deleted == Manager_delete_variant(db, store, cache, id, "default", 0)
             IN /\ deleted.result # "Ok"
                /\ listing_blob(deleted.store, id) = listing_blob(store, id)
                /\ deleted.db = db
                /\ deleted.store.meta = store.meta

\* C28: when one of the two blob-store calls of delete_variant (delete_variant,
\* then the metadata update) fails, delete_variant returns that error and the
\* index still holds the variants row (id, name), as before the call
C28_DeleteVariantAtomic ==
    \A id \in Ids : \A name \in VariantNames : \A fail \in 1..2 :
       LET deleted == Manager_delete_variant(db, store, cache, id, name, fail)
       IN (index_has_variant(db, id, name) /\ deleted.failed # "")
             => /\ deleted.result = "Io"
                /\ index_has_variant(deleted.db, id, name)
                /\ deleted.db = db

\* create or update dropped while it awaits the commit: the transaction is rolled
\* back, the blob store and the cache keep what the operation did before
dropped_at_commit(d, out) == Outcome("Abandoned", "", d, out.store, out.cache, <<>>)

\* delete dropped while it awaits the commit: the cache has lost the children
\* only, the entry of id is evicted after the commit
delete_dropped_at_commit(d, st, c, id, order) ==
    LET out == Manager_delete(d, st, c, id, order, 0)
        kept == IF is_container(d, id)
                THEN delete_children(delete_row(d, id), st, c, order, 1, 0).cache
                ELSE c
    IN Outcome("Abandoned", "", d, out.store, kept, <<>>)

next_get_metadata(out, id) == Manager_get_metadata(out.db, out.store, out.cache, id, FALSE)

\* C29: when a create, update or delete is abandoned after its blob-store calls
\* succeeded and before the index transaction commits, the next get_metadata(id)
\* returns what the blob store holds for id: the new metadata after an abandoned
\* create or update, NoSuchResource after an abandoned delete
C29_CrashWindowReconciled ==
    /\ \A m \in InputMetas : \A content \in Contents :
          LET created == Manager_create(db, store, cache, m, content, 0)
              updated == Manager_update(db, store, cache, m, content, 0)
          IN /\ created.result = "Ok"
                   => LET got == next_get_metadata(dropped_at_commit(db, created), m.id)
                      IN got.result = "Ok" /\ got.ret = <<m>> /\ created.store.meta[m.id] = m
             /\ updated.result = "Ok"
                   => LET got == next_get_metadata(dropped_at_commit(db, updated), m.id)
                      IN got.result = "Ok" /\ got.ret = <<m>> /\ updated.store.meta[m.id] = m
    /\ \A id \in DOMAIN db.resources : \A order \in delete_orders(db, id) :
          Manager_delete(db, store, cache, id, order, 0).result = "Ok"
             => next_get_metadata(delete_dropped_at_commit(db, store, cache, id, order),
                                  id).result = "NoSuchResource"

\* payloads of the default variant with one indexed field
IndexedContents == {IndexedContent("default", << <<"c">> >>),
                    IndexedContent("default", << <<"z", " ", "c">> >>)}

content_tokens(content) ==
    UNION {Range(preprocess_text(content.text[i])) : i \in 1..Len(content.text)}

\* C30: a leaf whose content was indexed when it was created is still returned
\* by by_text on a token of that content after a later successful update of
\* its metadata without content
C30_ContentStaysSearchable ==
    \A m \in InputMetas : \A content \in IndexedContents :
       \A m2 \in {x \in InputMetas : x.id = m.id /\ x.kind = "Leaf"} :
          LET created == Manager_create(db, store, cache, m, content, 0)
              updated == Manager_update(created.db, created.store, created.cache,
                                        m2, NoContent, 0)
          IN (m.kind = "Leaf" /\ ~is_root(m.id)
                 /\ created.result = "Ok" /\ updated.result = "Ok")
                => \A word \in content_tokens(content) :
                      /\ m.id \in by_text(created.db, word, NoTag).ids
                      /\ m.id \in by_text(updated.db, word, NoTag).ids

\* the last k elements of a sequence, in their order
LastOf(seq, k) == SubSeq(seq, Len(seq) - k + 1, Len(seq))

Min(a, b) == IF a <= b THEN a ELSE b

\* C31: the scorer log is a bounded FIFO: after n add calls the log has at most
\* MAX_VISIT_ENTRIES entries and holds the min(n, MAX_VISIT_ENTRIES) visits
\* added last, in the order they were added, and visit_count is n
C31_BoundedFifo ==
    /\ Len(scorer.entries) <= MAX_VISIT_ENTRIES
    /\ scorer.entries = LastOf(added, Min(Len(added), MAX_VISIT_ENTRIES))
    /\ scorer.visit_count = Len(added)

\* one visit more than the log holds was added and the first one, which differs
\* from the second, was dropped
C31_OldestDropped ==
    /\ Len(added) = MAX_VISIT_ENTRIES + 1
    /\ Len(scorer.entries) = MAX_VISIT_ENTRIES
    /\ added[1] # added[2]
    /\ added[MAX_VISIT_ENTRIES] # added[MAX_VISIT_ENTRIES + 1]

\* the age weight and the priority bonus as the documentation tabulates them
age_weight(days) ==
    CASE days <= 4 -> 100
      [] days > 4 /\ days <= 14 -> 70
      [] days > 14 /\ days <= 31 -> 50
      [] days > 31 /\ days <= 90 -> 30
      [] OTHER -> 10

RECURSIVE Sum(_, _)
Sum(f, S) == IF S = {} THEN 0
             ELSE LET x == CHOOSE y \in S : TRUE IN f[x] + Sum(f, S \ {x})

\* a hundred times the sum of bonus * age_weight / 100 over the log
hundredfold_points(s) ==
    Sum([i \in 1..Len(s.entries) |->
            bonus(s.entries[i].priority) * age_weight(Utc_now - s.entries[i].timestamp)],
        1..Len(s.entries))

\* the nearest whole number to x / 100, halves away from zero
round_hundredth(x) == (x + 50) \div 100

ScoredEntries ==
    [timestamp : {Utc_now, Utc_now - 4, Utc_now - 5, Utc_now - 10, Utc_now - 14,
                  Utc_now - 15, Utc_now - 31, Utc_now - 32, Utc_now - 90, Utc_now - 91},
     priority : {"Normal", "High", "VeryHigh"}]

\* the logs to which a visit of every age class and priority is added
SmallLog == 3

Normal(days) == [timestamp |-> Utc_now - days, priority |-> "Normal"]

without_scorer(row) == [row EXCEPT !.scorer = <<>>]

\* C33: visit(m, e) changes only the scorer column of the index row of m.id and
\* removes m.id from the cache: the blob store, every other row, the tags, the
\* variants, the full text rows and the other cache entries, in their order,
\* stay as they were
C33_VisitFrame ==
    [][last'.op = "visit"
          => /\ store' = store
             /\ DOMAIN db'.resources = DOMAIN db.resources
             /\ \A i \in DOMAIN db.resources :
                   IF i = last'.id
                   THEN without_scorer(db'.resources[i]) = without_scorer(db.resources[i])
                   ELSE db'.resources[i] = db.resources[i]
             /\ db'.tags = db.tags /\ db'.variants = db.variants /\ db'.fts = db.fts
             /\ cache' = SelectSeq(cache, LAMBDA entry : entry.id # last'.id)]_vars

\* a visit of a cached resource has returned: its row counts one visit, it has
\* left the cache, another entry is still cached, and its metadata blob counts none
C33_VisitedAndEvicted ==
    /\ last.op = "visit" /\ last.result = "Ok"
    /\ has_object(db, last.id) /\ db.resources[last.id].scorer[1] = 1
    /\ last.id \notin cache_ids(cache) /\ cache # <<>>
    /\ last.id \in DOMAIN store.meta /\ store.meta[last.id].scorer.visit_count = 0

Unread(out) == out.db = db /\ out.store = store /\ out.cache = cache /\ out.ret = <<>>

\* C34: by_name, child_by_name, by_tag and by_text called with an empty or
\* whitespace-only string, and top_by_frecency and last_modified called with
\* count 0, return the Custom error (EmptyNameQuery, EmptyTagQuery,
\* EmptyTextQuery, ZeroCountQuery) and neither read nor change the index, the
\* blob store or the cache
C34_DegenerateQueriesRejected ==
    /\ \A text \in BlankTexts :
          /\ \A tag \in QueryTags :
                /\ by_name(db, text, tag) = QueryErr("EmptyNameQuery")
                /\ by_text(db, text, tag) = QueryErr("EmptyTextQuery")
          /\ by_tag(db, text) = QueryErr("EmptyTagQuery")
          /\ \A parent \in Ids :
                LET out == child_by_name(db, store, cache, parent, text)
                IN out.result = "EmptyNameQuery" /\ Unread(out)
    /\ top_by_frecency(db, 0) = {QueryErr("ZeroCountQuery")}
    /\ last_modified(db, 0) = {QueryErr("ZeroCountQuery")}
    /\ last.result \in {"EmptyNameQuery", "EmptyTagQuery", "EmptyTextQuery", "ZeroCountQuery"}
          => ret = << {} >> \/ ret = <<>>

\* a query with a degenerate argument was refused on an index that holds a
\* resource a proper query would have found
C34_RefusedOnFilledIndex ==
    /\ last.op = "child_by_name" /\ last.result = "EmptyNameQuery"
    /\ child_by_name(db, store, cache, ROOT_ID, <<"a">>).result = "Ok"
    /\ top_by_frecency(db, 1) # {QueryErr("ZeroCountQuery")}

\* C35: the cache is advisory: along every sequence of calls, failed ones and
\* clear() included, get_metadata, get_container and get_full_path return what
\* a manager without metadata cache returns for the same sequence
C35_CacheIsAdvisory ==
    last.op \in {"get_metadata", "get_container", "get_full_path"}
       => last.result = uncached.result /\ ret = uncached.ret

\* C36: delete terminates: in every state of the index reached by successful
\* create and update operations, the worklist loop of delete(id) that collects
\* the descendants ends, for every id
C36_DeleteTerminates ==
    /\ \A id \in DOMAIN db.resources : to_delete_of(db, id).ends
    /\ last.result # "Diverges"

\* the resources the blob store holds under P
stored_under(st, P) == {c \in DOMAIN st.meta : st.meta[c].parent = P /\ c # P}

\* C37: no child is lost from a listing: when a manager with a fresh empty
\* index over the same blob store re-hydrates a container P and then creates
\* a child under P, every resource that was created under P and never
\* deleted is still listed in P's default blob and still returned by
\* get_container(P)
C37_NoChildLost ==
    \A P \in Ids : \A m \in InputMetas :
       LET hydrated == Manager_get_metadata(EmptyDb, store, <<>>, P, FALSE)
           created == Manager_create(hydrated.db, hydrated.store, hydrated.cache,
                                     m, NoContent, 0)
           got == Manager_get_container(created.db, created.store, created.cache, P, 0)
       IN (m.parent = P /\ ~is_root(m.id) /\ hydrated.result = "Ok" /\ created.result = "Ok")
             => /\ got.result = "Ok"
                /\ \A c \in stored_under(store, P) :
                      /\ c \in Range(created.store.variants[<<P, "default">>].ids)
                      /\ c \in listed_children(got)

\* the ids that have a blob, of metadata or of a variant, in the store
blob_owners(st) == DOMAIN st.meta \cup {k[1] : k \in DOMAIN st.variants}

\* C38: after delete(id) returns Ok the blob store holds no metadata blob and
\* no variant blob, the child listing included, for id and for the
\* descendants deleted with it; also when id is ROOT and when the container's
\* metadata declares no default variant
C38_DeleteLeavesNoBlob ==
    \A id \in DOMAIN db.resources : \A order \in delete_orders(db, id) :
       LET deleted == Manager_delete(db, store, cache, id, order, 0)
       IN deleted.result = "Ok"
             => blob_owners(deleted.store) \cap ({id} \cup Range(order)) = {}

\* C39: FileStore create or update called with content whose variant name is
\* not in the metadata's variant list returns InvalidVariant for every
\* resource kind and writes nothing: the metadata blobs and the variant blobs
\* are as before the call
C39_UndeclaredVariantRejected ==
    \A m \in InputMetas : \A name \in VariantNames :
       LET created == store_create(store, m, SomeContent(name), FALSE)
           updated == store_update(store, m, SomeContent(name), FALSE)
       IN ~has_variant(m, name)
             => /\ updated.err = "InvalidVariant" /\ updated.store = store
                /\ m.id \notin DOMAIN store.meta
                      => (created.err = "InvalidVariant" /\ created.store = store)

\* the contiguous substrings of 1 to n characters of a token
substrings(w, n) ==
    {SubSeq(w, i, j) : <<i, j>> \in {p \in (1..Len(w)) \X (1..Len(w)) :
                                       p[1] <= p[2] /\ p[2] - p[1] + 1 <= n}}

NoDuplicate(s) == \A i, j \in 1..Len(s) : s[i] = s[j] => i = j

\* C40: for every text and maximum length n, ngrams(text, n) is a
\* duplicate-free list whose elements are exactly the contiguous substrings of
\* length 1..n of the whitespace-separated, lowercased, diacritic-folded
\* tokens of text; "Hello World" with n = 3 and "child #17" with n = 5 yield 21
C40_NgramsAreTheSubstrings ==
    last.op = "ngrams" =>
       LET call == ret[1]
       IN /\ NoDuplicate(call.res)
          /\ Range(call.res)
                = UNION {substrings(w, call.max_substring_len) :
                            w \in Range(preprocess_text(call.text))}
          /\ (call.text = <<"H", "e", "l", "l", "o", " ", "W", "o", "r", "l", "d">>
                 /\ call.max_substring_len = 3) => Len(call.res) = 21
          /\ (call.text = <<"c", "h", "i", "l", "d", " ", "#", "1", "7">>
                 /\ call.max_substring_len = 5) => Len(call.res) = 21

====
